---- MODULE Spec2Model ----
(***************************************************************************)
(* Model of Scrapper.py: the batch-resumable concurrent fetch pipeline.    *)
(* The checkpoint directory and the two final artifacts persist across     *)
(* runs of main; everything else is the state of one process.              *)
(***************************************************************************)
EXTENDS Integers, Sequences, FiniteSets, TLC

VARIABLES
    siteIds,            \* the identifier list the listing pages yield (the same in every run)
    ckpt,               \* checkpoint directory: batch number -> rows of checkpoint_<N>.csv
    finalFile,          \* flavonoids_final.csv: <<>> when absent, <<rows>> when present
    skippedFile,        \* skipped_entries.csv: <<>> when absent, <<ids>> when present
    run,                \* number of runs of main started so far
    pc,                 \* position of the main thread
    all_ids,            \* main: all_ids
    completed_batches,  \* main: completed_batches
    i,                  \* main: loop variable of the batch loop
    all_data,           \* main: all_data
    batch_data,         \* main: batch_data
    skipped_entries,    \* module global skipped_entries
    task,               \* state of each future of the current batch
    result,             \* value returned by each finished future (<<>> is None)
    fetchCalls,         \* history: fetch_entry calls per position of all_ids in this run
    fetchEnds,          \* history: fetch_entry calls that have ended, per position, in this run
    failed,             \* history: positions whose fetch failed in this run: the request or the
                        \* parsing raised, or the page had none of the expected fields
    skipBase,           \* history: length of skipped_entries when the current batch was submitted
    saveCalls,          \* history: save_checkpoint calls per batch number in this run
    ckptWrites,         \* history: writes of checkpoint_<N>.csv over all runs
    completedEver,      \* history: batches whose fetches all finished and were passed on, over all runs
    returned,           \* history: records the fetches of batch N returned, in the run that completed it
    saved,              \* history: the records save_checkpoint wrote as checkpoint N
    startCkpt,          \* history: the checkpoint directory when this run started
    startFinal,         \* history: the final artifacts when this run started
    segStart,           \* history: length of all_data before batch N was appended in this run
    emptyPrev,          \* history: batches the previous run finished with no record collected
    emptyNow,           \* history: batches this run finished with no record collected
    finalWrites,        \* history: writes of flavonoids_final.csv in this run
    skippedWrites,      \* history: writes of skipped_entries.csv in this run
    abortCause,         \* history: why the run ended early ("" when it did not)
    links,              \* the site: the page the "next 500" link of each listing page leads to (0: no link)
    anchors,            \* the site: the texts of the "ul li a" elements of each listing page
    urls,               \* get_listing_pages: urls
    pageIdx,            \* main: listing pages extracted so far by the loop of line 101
    probe,              \* what the request of a single call of fetch_entry brings back
    ret,                \* that call's return: <<>> before it returns, then <<value>>
    strays,             \* checkpoint directory: names of the files matching checkpoint_*.csv
                        \* that no save_checkpoint wrote
    pages               \* the site: what the request for the detail page of each identifier
                        \* brings back, where that is fixed

vars == <<siteIds, ckpt, finalFile, skippedFile, run, pc, all_ids, completed_batches, i,
          all_data, batch_data, skipped_entries, task, result, fetchCalls, fetchEnds, failed,
          skipBase, saveCalls,
          ckptWrites, completedEver, returned, saved, startCkpt, startFinal, segStart,
          emptyPrev, emptyNow, finalWrites, skippedWrites, abortCause, links, anchors,
          urls, pageIdx, probe, ret, strays, pages>>

(***************************************************************************)
(* Bounds of the model.  batch_size and max_workers are 500 and 20 in the  *)
(* source; the model keeps their roles and scales them down.               *)
(***************************************************************************)
MaxIds == 4
MaxRows == 3
MaxPages == 2
MaxRuns == 2
batch_size == 3
max_workers == 2

\* the identifier the listing shows at position p: the two identifiers
\* alternate, so an identifier met on one page is met again on a later one
IdAt(p) == IF p % 2 = 1 THEN "FL0000000001" ELSE "FL0000000002"

Min(a, b) == IF a < b THEN a ELSE b

NumBatches(n) == (n + batch_size - 1) \div batch_size
MaxBatches == NumBatches(MaxIds)
BatchNums == 1..MaxBatches

\* batch_num = i // batch_size + 1
batch_num_of(k) == k \div batch_size + 1

\* a slice that stops one identifier early: all_ids[i:i+batch_size-1]
batch_ids_of_short(ids, k) == SubSeq(ids, k + 1, Min(k + batch_size, Len(ids)) - 1)

\* batch_ids = all_ids[i:i+batch_size]
batch_ids_of(ids, k) == SubSeq(ids, k + 1, Min(k + batch_size, Len(ids)))

\* positions of all_ids that lie in batch N
BatchPositions(ids, N) ==
    {p \in 1..Len(ids) : batch_num_of(p - 1) = N}

(***************************************************************************)
(* extract_ids: the texts of the anchors of one listing page, in the order *)
(* of the markup.                                                          *)
(***************************************************************************)
\* li.text.strip()
RECURSIVE Strip(_)
Strip(t) ==
    IF Len(t) > 0 /\ SubSeq(t, 1, 1) = " " THEN Strip(SubSeq(t, 2, Len(t)))
    ELSE IF Len(t) > 0 /\ SubSeq(t, Len(t), Len(t)) = " " THEN Strip(SubSeq(t, 1, Len(t) - 1))
    ELSE t

\* fid.startswith(prefix)
StartsWith(t, prefix) == Len(t) >= Len(prefix) /\ SubSeq(t, 1, Len(prefix)) = prefix

\* extract_ids that only looks at the prefix
RECURSIVE extract_ids_any_length(_)
extract_ids_any_length(texts) ==
    IF texts = <<>> THEN <<>>
    ELSE LET fid == Strip(Head(texts))
         IN (IF StartsWith(fid, "FL") THEN <<fid>> ELSE <<>>)
            \o extract_ids_any_length(Tail(texts))

\* lines 31-36
RECURSIVE extract_ids(_)
extract_ids(texts) ==
    IF texts = <<>> THEN <<>>
    ELSE LET fid == Strip(Head(texts))
         IN (IF Len(fid) = 12 /\ StartsWith(fid, "FL") THEN <<fid>> ELSE <<>>)
            \o extract_ids(Tail(texts))

\* the anchors a listing page can show: identifiers, an identifier met on
\* another page, padded text, texts of 11 and 13 characters, other prefixes
AnchorLists ==
    {<<"FL0000000001", "Index:FL", "FL0000000002">>,
     <<" FL0000000002 ", "FL000000001", "FL0000000001", "FL00000000012">>,
     <<"fl0000000001", "XX0000000001", "", "FL0000000003">>}

(***************************************************************************)
(* Values held in memory by pandas and by the records of fetch_entry.      *)
(***************************************************************************)
Columns == {"Flavonoid_ID", "Systematic_Name", "SMILES", "Average_Mass"}

Str(s) == [k |-> "str", s |-> s]
IntV(s) == [k |-> "int", s |-> s]
FloatV(s) == [k |-> "float", s |-> s]
NaN == [k |-> "nan", s |-> ""]

\* integer parts of the average masses the modelled pages carry
MassWholes == {0, 268}
IntTexts == {ToString(n) : n \in MassWholes}

(***************************************************************************)
(* fetch_entry.  A page is the sequence of its table rows; a row has n     *)
(* cells, key is the set of keywords its lowercased first cell contains,   *)
(* value is the text of its second cell and tokens is value.split().       *)
(***************************************************************************)
Word(t) == [num |-> FALSE, whole |-> 0, text |-> t]
Num(w, t) == [num |-> TRUE, whole |-> w, text |-> t]

Row(n, key, value, tokens) == [n |-> n, key |-> key, value |-> value, tokens |-> tokens]

\* str(int(float(value.split()[0]))), <<>> when any step raises
ParseMass(tokens) ==
    IF Len(tokens) = 0 THEN <<>>
    ELSE IF tokens[1].num THEN <<ToString(tokens[1].whole)>>
    ELSE <<>>

\* the loop body with an except that clears the field in place of "pass"
ScanRow_reset(acc, row) ==
    IF row.n >= 2
    THEN IF "smiles" \in row.key
         THEN [acc EXCEPT !.smiles = row.value]
         ELSE IF "systematic name" \in row.key
              THEN [acc EXCEPT !.systematic_name = row.value]
              ELSE IF "average mass" \in row.key
                   THEN LET m == ParseMass(row.tokens)
                        IN IF m = <<>> THEN [acc EXCEPT !.avg_mass = ""]
                           ELSE [acc EXCEPT !.avg_mass = m[1]]
                   ELSE acc
    ELSE acc

\* the loop body that keeps the first value found for SMILES and name
ScanRow_first(acc, row) ==
    IF row.n >= 2
    THEN IF "smiles" \in row.key
         THEN IF acc.smiles = "" THEN [acc EXCEPT !.smiles = row.value] ELSE acc
         ELSE IF "systematic name" \in row.key
              THEN IF acc.systematic_name = ""
                   THEN [acc EXCEPT !.systematic_name = row.value]
                   ELSE acc
              ELSE IF "average mass" \in row.key
                   THEN LET m == ParseMass(row.tokens)
                        IN IF m = <<>> THEN acc ELSE [acc EXCEPT !.avg_mass = m[1]]
                   ELSE acc
    ELSE acc

\* one iteration of the loop over the rows (lines 47-58)
ScanRow(acc, row) ==
    IF row.n >= 2
    THEN IF "smiles" \in row.key
         THEN [acc EXCEPT !.smiles = row.value]
         ELSE IF "systematic name" \in row.key
              THEN [acc EXCEPT !.systematic_name = row.value]
              ELSE IF "average mass" \in row.key
                   THEN LET m == ParseMass(row.tokens)
                        IN IF m = <<>> THEN acc ELSE [acc EXCEPT !.avg_mass = m[1]]
                   ELSE acc
    ELSE acc

RECURSIVE ScanRows(_, _)
ScanRows(acc, rows) ==
    IF rows = <<>> THEN acc
    ELSE ScanRows(ScanRow(acc, Head(rows)), Tail(rows))

NoFields == [smiles |-> "", systematic_name |-> "", avg_mass |-> ""]

Error == [ok |-> FALSE, rows |-> <<>>]
Page(rows) == [ok |-> TRUE, rows |-> rows]

EntryRecord(fid, f) ==
    [c \in Columns |->
        CASE c = "Flavonoid_ID" -> Str(fid)
          [] c = "Systematic_Name" -> Str(f.systematic_name)
          [] c = "SMILES" -> Str(f.smiles)
          [] c = "Average_Mass" -> Str(f.avg_mass)]

\* fetch_entry that asks for both fields: "and" in place of "or" at line 60
fetch_entry_both(fid, outcome) ==
    IF ~outcome.ok THEN <<>>
    ELSE LET f == ScanRows(NoFields, outcome.rows)
         IN IF f.smiles # "" /\ f.systematic_name # ""
            THEN <<EntryRecord(fid, f)>>
            ELSE <<>>

\* the value fetch_entry returns: <<>> is None, <<r>> the record r
fetch_entry(fid, outcome) ==
    IF ~outcome.ok THEN <<>>
    ELSE LET f == ScanRows(NoFields, outcome.rows)
         IN IF f.smiles # "" \/ f.systematic_name # ""
            THEN <<EntryRecord(fid, f)>>
            ELSE <<>>

PageNone == Page(<<>>)
PageSmiles ==
    Page(<<Row(2, {"smiles"}, "C1=CC", <<Word("C1=CC")>>),
           Row(2, {"average mass"}, "268.2 g/mol", <<Num(268, "268.2"), Word("g/mol")>>)>>)
PageName ==
    Page(<<Row(2, {"systematic name"}, "apigenin", <<Word("apigenin")>>),
           Row(2, {"average mass"}, "n/a", <<Word("n/a")>>)>>)

\* what one request for a detail page can bring back
Outcomes == {Error, PageNone, PageSmiles, PageName}

\* table rows of detail pages: labelled rows with and without a value, a
\* label that holds two keywords, a row of one cell, a row of no interest
TestRows ==
    {Row(2, {"smiles"}, "C1=CC", <<Word("C1=CC")>>),
     Row(2, {"smiles"}, "O=C=O", <<Word("O=C=O")>>),
     Row(2, {"smiles"}, "", <<>>),
     Row(2, {"systematic name"}, "apigenin", <<Word("apigenin")>>),
     Row(2, {"smiles", "systematic name"}, "luteolin", <<Word("luteolin")>>),
     Row(2, {"average mass"}, "268.2 g/mol", <<Num(268, "268.2"), Word("g/mol")>>),
     Row(2, {"average mass"}, "n/a", <<Word("n/a")>>),
     Row(1, {"smiles"}, "", <<>>),
     Row(2, {}, "C15H10O5", <<Word("C15H10O5")>>)}

\* the detail pages of up to MaxRows rows, and the request that fails
TestOutcomes == {Error} \cup {Page(rows) : rows \in UNION {[1..n -> TestRows] : n \in 0..MaxRows}}

\* the identifier of the single call
TestId == "FL0000000001"

(***************************************************************************)
(* pandas: DataFrame(data).to_csv and read_csv(...).to_dict("records").    *)
(***************************************************************************)
ColKinds(data, c) == {data[r][c].k : r \in DOMAIN data}

\* the text to_csv writes for one cell; the column's dtype is inferred from
\* all its values: object with any str, float64 with a float or NaN, else int64
CellText(data, r, c) ==
    LET v == data[r][c]
        ks == ColKinds(data, c)
    IN CASE v.k = "str" -> v.s
         [] v.k = "nan" -> ""
         [] v.k = "float" -> v.s \o ".0"
         [] v.k = "int" -> IF "str" \notin ks /\ ks \cap {"float", "nan"} # {}
                           THEN v.s \o ".0"
                           ELSE v.s

to_csv(data) == [r \in DOMAIN data |-> [c \in Columns |-> CellText(data, r, c)]]

\* the value read_csv gives one cell; the column's dtype is inferred from all
\* its cells: empty cells are NaN, a column of integers is int64, or float64
\* when it also has empty cells, any other column holds strings
CellValue(rows, r, c) ==
    LET t == rows[r][c]
        ts == {rows[q][c] : q \in DOMAIN rows}
    IN IF t = "" THEN NaN
       ELSE IF ts \subseteq IntTexts \cup {""}
            THEN IF "" \in ts THEN FloatV(t) ELSE IntV(t)
            ELSE Str(t)

read_csv(rows) == [r \in DOMAIN rows |-> [c \in Columns |-> CellValue(rows, r, c)]]

(***************************************************************************)
(* Checkpoint store.                                                       *)
(***************************************************************************)
\* save_checkpoint without the guard of lines 74-75: an empty table is written too
save_checkpoint_always(dir, batch_id, data) ==
    [n \in DOMAIN dir \cup {batch_id} |->
        IF n = batch_id THEN to_csv(data) ELSE dir[n]]

\* the directory after save_checkpoint(batch_id, data)
save_checkpoint(dir, batch_id, data) ==
    IF data = <<>> THEN dir
    ELSE [n \in DOMAIN dir \cup {batch_id} |->
            IF n = batch_id THEN to_csv(data) ELSE dir[n]]

\* the path save_checkpoint writes and main reads: checkpoint_<N>.csv
FileName(n) == "checkpoint_" \o ToString(n) \o ".csv"

\* the names of the files of the checkpoint directory
FileNames(dir, others) == {FileName(n) : n \in DOMAIN dir} \cup others

\* the position of the first sep in t, Len(t) + 1 when t has none
First(t, sep) ==
    LET S == {k \in 1..Len(t) : SubSeq(t, k, k) = sep}
    IN IF S = {} THEN Len(t) + 1 ELSE CHOOSE k \in S : \A m \in S : k <= m

\* t.split(sep)[0]
SplitHead(t, sep) == SubSeq(t, 1, First(t, sep) - 1)

\* what follows the first sep of t
SplitTail(t, sep) == SubSeq(t, First(t, sep) + 1, Len(t))

Digit(c) ==
    CASE c = "0" -> 0 [] c = "1" -> 1 [] c = "2" -> 2 [] c = "3" -> 3 [] c = "4" -> 4
      [] c = "5" -> 5 [] c = "6" -> 6 [] c = "7" -> 7 [] c = "8" -> 8 [] c = "9" -> 9
      [] OTHER -> -1

RECURSIVE DigitsValue(_, _)
DigitsValue(t, acc) ==
    IF Len(t) = 0 THEN acc
    ELSE DigitsValue(SubSeq(t, 2, Len(t)), 10 * acc + Digit(SubSeq(t, 1, 1)))

\* int(t): <<>> when it raises ValueError, else <<value>>
int(t) ==
    LET s == Strip(t)
        signed == StartsWith(s, "-") \/ StartsWith(s, "+")
        u == IF signed THEN SubSeq(s, 2, Len(s)) ELSE s
    IN IF Len(u) > 0 /\ \A k \in 1..Len(u) : Digit(SubSeq(u, k, k)) >= 0
       THEN <<IF StartsWith(s, "-") THEN 0 - DigitsValue(u, 0) ELSE DigitsValue(u, 0)>>
       ELSE <<>>

\* load_completed_batches that finds no file: no batch is ever taken as done
load_completed_batches_none(names) == {}

\* lines 83-91: the batch number of a name is
\* int(name.split("_")[1].split(".")[0]); a name whose number does not parse
\* is passed over
load_completed_batches(names) ==
    LET seconds == {SplitHead(SplitTail(f, "_"), "_") : f \in names}
        firsts == {SplitHead(t, ".") : t \in seconds}
        nums == {int(t) : t \in firsts}
    IN {n[1] : n \in nums \ {<<>>}}

(***************************************************************************)
(* Initial state: an empty checkpoint directory, no final artifacts, no    *)
(* process running.                                                        *)
(***************************************************************************)
NoTasks == <<>>
ZeroPos == [p \in 1..MaxIds |-> 0]
ZeroBatch == [n \in BatchNums |-> 0]

\* the listings the site can hold: up to MaxIds identifiers, duplicates included
IdLists == {[p \in 1..n |-> IdAt(p)] : n \in 0..MaxIds}

\* no process has run yet: an empty checkpoint directory and no final artifacts
NoProcess ==
    /\ ckpt = <<>>
    /\ finalFile = <<>>
    /\ skippedFile = <<>>
    /\ run = 0
    /\ pc = "idle"
    /\ all_ids = <<>>
    /\ completed_batches = {}
    /\ i = 0
    /\ all_data = <<>>
    /\ batch_data = <<>>
    /\ skipped_entries = <<>>
    /\ task = NoTasks
    /\ result = NoTasks
    /\ fetchCalls = ZeroPos
    /\ fetchEnds = ZeroPos
    /\ failed = {}
    /\ skipBase = 0
    /\ saveCalls = ZeroBatch
    /\ ckptWrites = ZeroBatch
    /\ completedEver = {}
    /\ returned = ZeroBatch
    /\ saved = [n \in BatchNums |-> <<>>]
    /\ startCkpt = <<>>
    /\ startFinal = <<<<>>, <<>>>>
    /\ segStart = ZeroBatch
    /\ emptyPrev = {}
    /\ emptyNow = {}
    /\ finalWrites = 0
    /\ skippedWrites = 0
    /\ abortCause = ""

\* discovery is taken as one step: no listing page is walked
NoListing ==
    /\ links = <<>>
    /\ anchors = <<>>
    /\ urls = <<>>
    /\ pageIdx = 0

\* no single call of fetch_entry is under way
NoCall ==
    /\ probe = Error
    /\ ret = <<>>

\* the checkpoint directory holds no file but those save_checkpoint writes,
\* and a request may bring back a different page every time
NoGiven ==
    /\ strays = {}
    /\ pages = <<>>

Init ==
    /\ siteIds \in IdLists
    /\ NoProcess
    /\ NoListing
    /\ NoCall
    /\ NoGiven

files == <<ckpt, finalFile, skippedFile>>
site == <<siteIds, links, anchors>>
everHist == <<ckptWrites, completedEver, returned, saved>>
runHist == <<startCkpt, startFinal, emptyPrev>>
pool == <<task, result>>
fetchHist == <<fetchCalls, fetchEnds, failed>>
\* state the steps of main leave alone
aside == <<urls, pageIdx, probe, ret, strays, pages>>

(***************************************************************************)
(* A new process runs main (line 153).                                     *)
(***************************************************************************)
StartRun ==
    /\ pc \in {"idle", "done", "aborted"}
    /\ run < MaxRuns
    /\ run' = run + 1
    /\ pc' = "listing"
    /\ all_ids' = <<>>
    /\ completed_batches' = {}
    /\ i' = 0
    /\ all_data' = <<>>
    /\ batch_data' = <<>>
    /\ skipped_entries' = <<>>
    /\ task' = NoTasks
    /\ result' = NoTasks
    /\ fetchCalls' = ZeroPos
    /\ fetchEnds' = ZeroPos
    /\ failed' = {}
    /\ skipBase' = 0
    /\ saveCalls' = ZeroBatch
    /\ startCkpt' = ckpt
    /\ startFinal' = <<finalFile, skippedFile>>
    /\ segStart' = ZeroBatch
    /\ emptyPrev' = emptyNow
    /\ emptyNow' = {}
    /\ finalWrites' = 0
    /\ skippedWrites' = 0
    /\ abortCause' = ""
    /\ UNCHANGED <<files, site, aside, everHist>>

\* lines 97-104: get_listing_pages and extract_ids of every page succeed
Discover ==
    /\ pc = "listing"
    /\ all_ids' = siteIds
    /\ pc' = "resume"
    /\ UNCHANGED <<files, site, aside, everHist, runHist, run, completed_batches, i, all_data,
                   batch_data, skipped_entries, pool, fetchHist, skipBase, saveCalls, segStart,
                   emptyNow, finalWrites, skippedWrites, abortCause>>

\* a failure of discovery that is caught and taken for an empty listing
DiscoverFail_swallowed ==
    /\ pc = "listing"
    /\ all_ids' = <<>>
    /\ pc' = "resume"
    /\ abortCause' = "listing"
    /\ UNCHANGED <<files, site, aside, everHist, runHist, run, completed_batches, i,
                   all_data, batch_data, skipped_entries, pool, fetchHist, skipBase,
                   saveCalls, segStart, emptyNow, finalWrites, skippedWrites>>

\* lines 97-104: a request or the parsing of a listing page raises; nothing
\* catches it and the process ends
DiscoverFail ==
    /\ pc = "listing"
    /\ pc' = "aborted"
    /\ abortCause' = "listing"
    /\ UNCHANGED <<files, site, aside, everHist, runHist, run, all_ids, completed_batches, i,
                   all_data, batch_data, skipped_entries, pool, fetchHist, skipBase, saveCalls,
                   segStart, emptyNow, finalWrites, skippedWrites>>

\* lines 107-111
LoadCompleted ==
    /\ pc = "resume"
    /\ completed_batches' = load_completed_batches(FileNames(ckpt, strays))
    /\ i' = 0
    /\ all_data' = <<>>
    /\ pc' = "loop"
    /\ UNCHANGED <<files, site, aside, everHist, runHist, run, all_ids, batch_data,
                   skipped_entries, pool, fetchHist, skipBase, saveCalls, segStart, emptyNow,
                   finalWrites, skippedWrites, abortCause>>

\* lines 113-122: the batch has a checkpoint and is reloaded
ReloadBatch ==
    /\ pc = "loop"
    /\ i < Len(all_ids)
    /\ batch_num_of(i) \in completed_batches
    /\ batch_num_of(i) \in DOMAIN ckpt
    /\ all_data' = all_data \o read_csv(ckpt[batch_num_of(i)])
    /\ segStart' = [segStart EXCEPT ![batch_num_of(i)] = Len(all_data)]
    /\ i' = i + batch_size
    /\ UNCHANGED <<files, site, aside, everHist, runHist, run, pc, all_ids, completed_batches,
                   batch_data, skipped_entries, pool, fetchHist, skipBase, saveCalls, emptyNow,
                   finalWrites, skippedWrites, abortCause>>

\* lines 117-120: the batch is taken as done and checkpoint_<N>.csv does not
\* exist; read_csv raises, nothing catches it and the process ends
ReloadFail ==
    /\ pc = "loop"
    /\ i < Len(all_ids)
    /\ batch_num_of(i) \in completed_batches
    /\ batch_num_of(i) \notin DOMAIN ckpt
    /\ pc' = "aborted"
    /\ abortCause' = "reload"
    /\ UNCHANGED <<files, site, aside, everHist, runHist, run, all_ids, completed_batches, i,
                   all_data, batch_data, skipped_entries, pool, fetchHist, skipBase, saveCalls,
                   segStart, emptyNow, finalWrites, skippedWrites>>

\* lines 113-127: the batch has no checkpoint; every identifier is submitted
SubmitBatch ==
    /\ pc = "loop"
    /\ i < Len(all_ids)
    /\ batch_num_of(i) \notin completed_batches
    /\ batch_data' = <<>>
    /\ task' = [j \in 1..Len(batch_ids_of(all_ids, i)) |-> "queued"]
    /\ result' = [j \in 1..Len(batch_ids_of(all_ids, i)) |-> <<>>]
    /\ skipBase' = Len(skipped_entries)
    /\ pc' = "pool"
    /\ UNCHANGED <<files, site, aside, everHist, runHist, run, all_ids, completed_batches, i,
                   all_data, skipped_entries, fetchHist, saveCalls, segStart, emptyNow,
                   finalWrites, skippedWrites, abortCause>>

Running == {j \in DOMAIN task : task[j] = "running"}
\* the futures whose call has ended with a record
Returned == {j \in DOMAIN task : task[j] \in {"done", "collected"} /\ result[j] # <<>>}
Queued == {j \in DOMAIN task : task[j] = "queued"}

\* a pool that starts a thread for every work item
WorkerFree_unbounded(j) ==
    /\ j \in Queued
    /\ \A q \in Queued : j <= q

\* a worker may take the next work item: one of max_workers threads is free
\* and j is the first item of the executor's queue
WorkerFree(j) ==
    /\ Cardinality(Running) < max_workers
    /\ j \in Queued
    /\ \A q \in Queued : j <= q

\* a worker thread takes the next queued call of fetch_entry and starts it
WorkerStart(j) ==
    /\ pc = "pool"
    /\ WorkerFree(j)
    /\ task' = [task EXCEPT ![j] = "running"]
    /\ fetchCalls' = [fetchCalls EXCEPT ![i + j] = @ + 1]
    /\ UNCHANGED <<fetchEnds, failed, skipBase, files, site, aside, everHist, runHist, run, pc,
                   all_ids, completed_batches, i,
                   all_data, batch_data, skipped_entries, result, saveCalls, segStart,
                   emptyNow, finalWrites, skippedWrites, abortCause>>

\* fetch_entry without the handler of lines 68-70: the exception reaches
\* future.result() in main and ends the process
WorkerFinish_raise(j, outcome) ==
    /\ pc = "pool"
    /\ j \in Running
    /\ LET fid == all_ids[i + j]
           r == fetch_entry(fid, outcome)
       IN /\ result' = [result EXCEPT ![j] = r]
          /\ skipped_entries' = IF r = <<>> /\ outcome.ok THEN Append(skipped_entries, fid)
                                ELSE skipped_entries
    /\ task' = [task EXCEPT ![j] = "done"]
    /\ fetchEnds' = [fetchEnds EXCEPT ![i + j] = @ + 1]
    /\ failed' = IF fetch_entry(all_ids[i + j], outcome) = <<>>
               THEN failed \cup {i + j}
               ELSE failed
    /\ pc' = IF outcome.ok THEN pc ELSE "aborted"
    /\ abortCause' = IF outcome.ok THEN abortCause ELSE "fetch"
    /\ UNCHANGED <<files, site, aside, everHist, runHist, run, all_ids, completed_batches, i,
                   all_data, batch_data, fetchCalls, skipBase, saveCalls, segStart, emptyNow,
                   finalWrites, skippedWrites>>

\* an append that is a read followed by a write: the write puts back a list
\* read before other threads appended to it
WorkerFinish_racy(j, outcome) ==
    /\ pc = "pool"
    /\ j \in Running
    /\ LET fid == all_ids[i + j]
           r == fetch_entry(fid, outcome)
       IN /\ result' = [result EXCEPT ![j] = r]
          /\ \E n \in skipBase..Len(skipped_entries) :
                skipped_entries' = IF r = <<>>
                                   THEN Append(SubSeq(skipped_entries, 1, n), fid)
                                   ELSE skipped_entries
    /\ task' = [task EXCEPT ![j] = "done"]
    /\ fetchEnds' = [fetchEnds EXCEPT ![i + j] = @ + 1]
    /\ failed' = IF fetch_entry(all_ids[i + j], outcome) = <<>>
               THEN failed \cup {i + j}
               ELSE failed
    /\ UNCHANGED <<files, site, aside, everHist, runHist, run, pc, all_ids, completed_batches, i,
                   all_data, batch_data, fetchCalls, skipBase, saveCalls, segStart, emptyNow,
                   finalWrites, skippedWrites, abortCause>>

\* lines 38-70: the call ends; it returns a record or appends to skipped_entries
WorkerFinish(j, outcome) ==
    /\ pc = "pool"
    /\ j \in Running
    /\ LET fid == all_ids[i + j]
           r == fetch_entry(fid, outcome)
       IN /\ result' = [result EXCEPT ![j] = r]
          /\ skipped_entries' = IF r = <<>> THEN Append(skipped_entries, fid)
                                ELSE skipped_entries
    /\ task' = [task EXCEPT ![j] = "done"]
    /\ fetchEnds' = [fetchEnds EXCEPT ![i + j] = @ + 1]
    /\ failed' = IF fetch_entry(all_ids[i + j], outcome) = <<>>
               THEN failed \cup {i + j}
               ELSE failed
    /\ UNCHANGED <<files, site, aside, everHist, runHist, run, pc, all_ids, completed_batches, i,
                   all_data, batch_data, fetchCalls, skipBase, saveCalls, segStart, emptyNow,
                   finalWrites, skippedWrites, abortCause>>

\* lines 128-131: as_completed yields a finished future
Collect(j) ==
    /\ pc = "pool"
    /\ j \in DOMAIN task
    /\ task[j] = "done"
    /\ batch_data' = IF result[j] # <<>> THEN batch_data \o result[j] ELSE batch_data
    /\ task' = [task EXCEPT ![j] = "collected"]
    /\ UNCHANGED <<files, site, aside, everHist, runHist, run, pc, all_ids, completed_batches, i,
                   all_data, skipped_entries, result, fetchHist, skipBase, saveCalls, segStart,
                   emptyNow, finalWrites, skippedWrites, abortCause>>

\* leaving the loop over as_completed after its first result
PoolDone_first == \E j \in DOMAIN task : task[j] = "collected"

\* the with block is left: every future has been yielded by as_completed
PoolDone == \A j \in DOMAIN task : task[j] = "collected"

\* lines 136-137
SaveBatch ==
    /\ pc = "pool"
    /\ PoolDone
    /\ LET N == batch_num_of(i)
           dir == save_checkpoint(ckpt, N, batch_data)
       IN /\ ckpt' = dir
          /\ ckptWrites' = [ckptWrites EXCEPT ![N] = IF batch_data = <<>> THEN @ ELSE @ + 1]
          /\ saveCalls' = [saveCalls EXCEPT ![N] = @ + 1]
          /\ completedEver' = completedEver \cup {N}
          /\ returned' = [returned EXCEPT ![N] = Cardinality(Returned)]
          /\ saved' = IF batch_data = <<>> THEN saved ELSE [saved EXCEPT ![N] = batch_data]
          /\ emptyNow' = IF Returned = {} THEN emptyNow \cup {N} ELSE emptyNow
          /\ segStart' = [segStart EXCEPT ![N] = Len(all_data)]
    /\ all_data' = all_data \o batch_data
    /\ i' = i + batch_size
    /\ batch_data' = <<>>
    /\ task' = NoTasks
    /\ result' = NoTasks
    /\ pc' = "loop"
    /\ UNCHANGED <<finalFile, skippedFile, site, aside, runHist, run, all_ids, completed_batches,
                   skipped_entries, fetchHist, skipBase, finalWrites, skippedWrites, abortCause>>

\* the end of main without the test of line 144: the skipped table is always written
Merge_always ==
    /\ pc = "loop"
    /\ i >= Len(all_ids)
    /\ finalFile' = <<to_csv(all_data)>>
    /\ finalWrites' = finalWrites + 1
    /\ skippedFile' = <<skipped_entries>>
    /\ skippedWrites' = skippedWrites + 1
    /\ pc' = "done"
    /\ UNCHANGED <<ckpt, site, aside, everHist, runHist, run, all_ids, completed_batches, i,
                   all_data, batch_data, skipped_entries, pool, fetchHist, skipBase, saveCalls,
                   segStart, emptyNow, abortCause>>

\* lines 139-151
Merge ==
    /\ pc = "loop"
    /\ i >= Len(all_ids)
    /\ finalFile' = <<to_csv(all_data)>>
    /\ finalWrites' = finalWrites + 1
    /\ IF skipped_entries # <<>>
       THEN /\ skippedFile' = <<skipped_entries>>
            /\ skippedWrites' = skippedWrites + 1
       ELSE UNCHANGED <<skippedFile, skippedWrites>>
    /\ pc' = "done"
    /\ UNCHANGED <<ckpt, site, aside, everHist, runHist, run, all_ids, completed_batches, i,
                   all_data, batch_data, skipped_entries, pool, fetchHist, skipBase, saveCalls,
                   segStart, emptyNow, abortCause>>

\* the process is interrupted or killed between two steps: its memory is
\* gone with it, and with it the record of the calls it made; the files stay
Kill ==
    /\ pc \in {"resume", "loop", "pool"}
    /\ pc' = "aborted"
    /\ abortCause' = "killed"
    /\ all_ids' = <<>>
    /\ completed_batches' = {}
    /\ i' = 0
    /\ all_data' = <<>>
    /\ batch_data' = <<>>
    /\ skipped_entries' = <<>>
    /\ task' = NoTasks
    /\ result' = NoTasks
    /\ fetchCalls' = ZeroPos
    /\ fetchEnds' = ZeroPos
    /\ failed' = {}
    /\ skipBase' = 0
    /\ saveCalls' = ZeroBatch
    /\ segStart' = ZeroBatch
    /\ UNCHANGED <<files, site, aside, everHist, runHist, run, emptyNow, finalWrites,
                   skippedWrites>>

Next ==
    \/ StartRun
    \/ Discover
    \/ DiscoverFail
    \/ LoadCompleted
    \/ ReloadBatch
    \/ SubmitBatch
    \/ \E j \in 1..batch_size : WorkerStart(j)
    \/ \E j \in 1..batch_size : \E outcome \in Outcomes : WorkerFinish(j, outcome)
    \/ \E j \in 1..batch_size : Collect(j)
    \/ SaveBatch
    \/ Merge
    \/ Kill

Spec == Init /\ [][Next]_vars

\* runs that nothing interrupts: every thread that can take a step takes it
\* in the end, and every request comes back
NextUninterrupted ==
    \/ StartRun
    \/ Discover
    \/ DiscoverFail
    \/ LoadCompleted
    \/ ReloadBatch
    \/ SubmitBatch
    \/ \E j \in 1..batch_size : WorkerStart(j)
    \/ \E j \in 1..batch_size : \E outcome \in Outcomes : WorkerFinish(j, outcome)
    \/ \E j \in 1..batch_size : Collect(j)
    \/ SaveBatch
    \/ Merge

FairSpec == Init /\ [][NextUninterrupted]_vars /\ WF_vars(NextUninterrupted)

(***************************************************************************)
(* Runs of main over a checkpoint directory that holds files matching      *)
(* checkpoint_*.csv that no run wrote.                                     *)
(***************************************************************************)
StraySets ==
    {{},
     {"checkpoint_x.csv", "checkpoint_.csv"},
     {"checkpoint_1_old.csv"},
     {"checkpoint_02.csv", "checkpoint_x.csv"}}

StrayInit ==
    /\ siteIds \in IdLists
    /\ NoProcess
    /\ NoListing
    /\ NoCall
    /\ strays \in StraySets
    /\ pages = <<>>

NextStray ==
    \/ Next
    \/ ReloadFail

SpecStray == StrayInit /\ [][NextStray]_vars

(***************************************************************************)
(* Runs of main against a site where the request for the detail page of an *)
(* identifier brings back the same thing every time.                       *)
(***************************************************************************)
Ids == {IdAt(p) : p \in 1..MaxIds}

FixedInit ==
    /\ siteIds \in IdLists
    /\ NoProcess
    /\ NoListing
    /\ NoCall
    /\ strays = {}
    /\ pages \in [Ids -> Outcomes]

\* lines 38-70: the call for the identifier at position i + j ends
FixedFinish(j) ==
    /\ pc = "pool"
    /\ j \in Running
    /\ WorkerFinish(j, pages[all_ids[i + j]])

NextFixed ==
    \/ StartRun
    \/ Discover
    \/ DiscoverFail
    \/ LoadCompleted
    \/ ReloadBatch
    \/ SubmitBatch
    \/ \E j \in 1..batch_size : WorkerStart(j)
    \/ \E j \in 1..batch_size : FixedFinish(j)
    \/ \E j \in 1..batch_size : Collect(j)
    \/ SaveBatch
    \/ Merge
    \/ Kill

SpecFixed == FixedInit /\ [][NextFixed]_vars

(***************************************************************************)
(* One call of fetch_entry on its own (lines 38-70), for every page of     *)
(* TestOutcomes.                                                           *)
(***************************************************************************)
FetchInit ==
    /\ siteIds = <<>>
    /\ NoProcess
    /\ NoListing
    /\ probe \in TestOutcomes
    /\ ret = <<>>
    /\ NoGiven

CallFetchEntry ==
    /\ ret = <<>>
    /\ LET r == fetch_entry(TestId, probe)
       IN /\ ret' = <<r>>
          /\ skipped_entries' = IF r = <<>> THEN Append(skipped_entries, TestId)
                                ELSE skipped_entries
    /\ UNCHANGED <<files, site, everHist, runHist, pool, fetchHist, run, pc, all_ids,
                   completed_batches, i, all_data, batch_data, skipBase, saveCalls, segStart,
                   emptyNow, finalWrites, skippedWrites, abortCause, probe, urls, pageIdx,
                   strays, pages>>

NextFetch == CallFetchEntry

SpecFetch == FetchInit /\ [][NextFetch]_vars

(***************************************************************************)
(* Discovery step by step (lines 15-25 and 100-103), for every arrangement *)
(* of next links among MaxPages listing pages.  Page 1 is LISTING_URL.     *)
(***************************************************************************)
ListingPages == 1..MaxPages

ListingInit ==
    /\ siteIds = <<>>
    /\ NoProcess
    /\ NoCall
    /\ links \in [ListingPages -> 0..MaxPages]
    /\ anchors \in [ListingPages -> AnchorLists]
    /\ urls = <<>>
    /\ pageIdx = 0
    /\ NoGiven

listingRest == <<files, siteIds, links, anchors, everHist, runHist, pool, fetchHist, run,
                completed_batches, i, all_data, batch_data, skipped_entries, skipBase,
                saveCalls, segStart, emptyNow, finalWrites, skippedWrites, abortCause,
                probe, ret, strays, pages>>

\* line 17
PaginateStart ==
    /\ pc = "idle"
    /\ urls' = <<1>>
    /\ pc' = "paginate"
    /\ UNCHANGED <<listingRest, all_ids, pageIdx>>

\* lines 19-24: request urls[-1]; follow its next link.  A walk that has
\* requested more pages than the site has is cut off.
PaginateFollow ==
    /\ pc = "paginate"
    /\ Len(urls) <= MaxPages
    /\ links[urls[Len(urls)]] # 0
    /\ urls' = Append(urls, links[urls[Len(urls)]])
    /\ UNCHANGED <<listingRest, pc, all_ids, pageIdx>>

\* lines 19-25 and 100: the page has no next link; urls is returned
PaginateReturn ==
    /\ pc = "paginate"
    /\ links[urls[Len(urls)]] = 0
    /\ all_ids' = <<>>
    /\ pageIdx' = 0
    /\ pc' = "extract"
    /\ UNCHANGED <<listingRest, urls>>

\* lines 101-103
ExtractPage ==
    /\ pc = "extract"
    /\ pageIdx < Len(urls)
    /\ all_ids' = all_ids \o extract_ids(anchors[urls[pageIdx + 1]])
    /\ pageIdx' = pageIdx + 1
    /\ UNCHANGED <<listingRest, pc, urls>>

NextListing ==
    \/ PaginateStart
    \/ PaginateFollow
    \/ PaginateReturn
    \/ ExtractPage

SpecListing == ListingInit /\ [][NextListing]_vars

TypeOK ==
    /\ run \in 0..MaxRuns
    /\ pc \in {"idle", "listing", "resume", "loop", "pool", "done", "aborted"}
    /\ DOMAIN ckpt \subseteq BatchNums

(***************************************************************************)
(* Properties.                                                             *)
(***************************************************************************)
\* the scheduler has moved past batch N in this run
Passed(N) == pc \in {"loop", "pool", "done"} /\ i >= N * batch_size

\* the rows of the final table that batch N contributed in this run
FinalRowsOf(N, n) == SubSeq(finalFile[1], segStart[N] + 1, segStart[N] + n)

NoFetchOf(N) == \A p \in BatchPositions(siteIds, N) : fetchCalls[p] = 0

\* C1: for every batch N whose checkpoint exists when a run starts, the run
\* calls fetch_entry for no identifier of batch N, and the final merged table
\* of the finished run holds exactly the rows stored in checkpoint N.
C1_IdempotentResume ==
    \A N \in DOMAIN startCkpt :
        /\ NoFetchOf(N)
        /\ pc = "done" => FinalRowsOf(N, Len(startCkpt[N])) = startCkpt[N]

\* C2: once checkpoint N exists, no step writes it again or changes its rows.
C2_CreateOnce ==
    [][\A N \in DOMAIN ckpt :
          /\ N \in DOMAIN ckpt'
          /\ ckpt'[N] = ckpt[N]
          /\ ckptWrites'[N] = ckptWrites[N]]_vars

\* a later run has met a checkpoint of an earlier run and has saved another batch
C2_Witness ==
    /\ run >= 2
    /\ pc = "done"
    /\ DOMAIN startCkpt # {}
    /\ \E N \in BatchNums : saveCalls[N] = 1 /\ N \in DOMAIN ckpt

\* C3, as stated: completing batch N writes exactly one artifact N, and
\* artifact N exists if and only if batch N has been completed.
C3_ArtifactIffCompleted ==
    \A N \in BatchNums :
        /\ N \in DOMAIN ckpt <=> N \in completedEver
        /\ N \in completedEver => ckptWrites[N] = 1

\* C3, amended: artifact N exists if and only if batch N has been completed
\* with at least one record returned; it was written exactly once, and it
\* holds one row for every record the fetches of the batch returned.
C3_ArtifactIffCompletedNonEmpty ==
    \A N \in BatchNums :
        /\ N \in DOMAIN ckpt <=> (N \in completedEver /\ returned[N] > 0)
        /\ ckptWrites[N] = IF N \in DOMAIN ckpt THEN 1 ELSE 0
        /\ N \in DOMAIN ckpt => Len(ckpt[N]) = returned[N]

\* one batch was completed with no record and has no artifact, another has one
C3_Witness ==
    /\ \E N \in completedEver : N \notin DOMAIN ckpt
    /\ \E N \in completedEver : N \in DOMAIN ckpt /\ Len(ckpt[N]) >= 2

\* C4: a batch whose fetches all return no record leaves no checkpoint
\* artifact, and the next run, once past that batch, has called fetch_entry
\* once for every identifier of it.
C4_EmptyBatchRetried ==
    /\ \A N \in emptyNow : N \notin DOMAIN ckpt
    /\ \A N \in emptyPrev :
          Passed(N) => \A p \in BatchPositions(all_ids, N) : fetchCalls[p] = 1

\* the run after an all-skipped batch has finished and has fetched it again
C4_Witness ==
    /\ pc = "done"
    /\ \E N \in emptyPrev :
          /\ BatchPositions(all_ids, N) # {}
          /\ \A p \in BatchPositions(all_ids, N) : fetchCalls[p] = 1

BatchOf(p) == batch_num_of(p - 1)

\* the fetch of position p was started in this run and has ended
Fetched(p) == fetchCalls[p] = 1 /\ fetchEnds[p] = 1

\* skipped_entries holds fid
IsSkipped(fid) == \E k \in DOMAIN skipped_entries : skipped_entries[k] = fid

\* C5 (containment): a fetch that failed is in skipped_entries and the
\* process has not ended for it; once the scheduler is past its batch, every
\* fetch of the batch has been made and has ended, the batch has been passed
\* to save_checkpoint once with every record returned, and a finished run has
\* written both final artifacts.
C5_Contained ==
    \A p \in failed :
        /\ IsSkipped(all_ids[p])
        /\ abortCause = ""
        /\ Passed(BatchOf(p)) =>
              /\ \A q \in BatchPositions(all_ids, BatchOf(p)) : Fetched(q)
              /\ saveCalls[BatchOf(p)] = 1
              /\ Len(all_data) - segStart[BatchOf(p)] >= returned[BatchOf(p)]
        /\ pc = "done" => finalWrites = 1 /\ skippedWrites = 1

\* C5: a failure inside one fetch is contained, and the run goes on to
\* finish: it reaches the end of main with both final artifacts written.
C5_FailureContained ==
    /\ []C5_Contained
    /\ (failed # {}) ~> (pc = "done" /\ finalWrites = 1 /\ skippedWrites = 1)

\* a fetch failed while a sibling returned a record, and the run finished
C5_Witness ==
    /\ pc = "done"
    /\ \E p \in failed : \E q \in BatchPositions(all_ids, BatchOf(p)) :
          q \notin failed /\ returned[BatchOf(p)] >= 1

\* C6: a run that fails while discovering listing pages has ended, has
\* called fetch_entry for nothing, has written no checkpoint, no final table
\* and no skipped table, and every file is as it was when the run started.
C6_ListingFailureFatal ==
    abortCause = "listing" =>
        /\ pc = "aborted"
        /\ \A p \in 1..MaxIds : fetchCalls[p] = 0
        /\ \A N \in BatchNums : saveCalls[N] = 0
        /\ finalWrites = 0 /\ skippedWrites = 0
        /\ ckpt = startCkpt
        /\ <<finalFile, skippedFile>> = startFinal

\* discovery failed in a run that started with a checkpoint and a final table
C6_Witness ==
    /\ abortCause = "listing"
    /\ DOMAIN startCkpt # {}
    /\ startFinal[1] # <<>>

\* C7: when a fetch of a batch has started, every earlier batch that was
\* not reloaded has had each of its fetches started and ended, and has been
\* passed to save_checkpoint once.
C7_BatchesSequential ==
    \A p \in 1..Len(all_ids) :
        fetchCalls[p] > 0 =>
            \A q \in 1..Len(all_ids) :
                (BatchOf(q) < BatchOf(p) /\ BatchOf(q) \notin completed_batches) =>
                    Fetched(q) /\ saveCalls[BatchOf(q)] = 1

\* a fetch of batch 2 is under way after batch 1 was fetched in the same run
C7_Witness ==
    \E p \in 1..Len(all_ids) :
        /\ BatchOf(p) = 2
        /\ fetchCalls[p] = 1 /\ fetchEnds[p] = 0
        /\ saveCalls[1] = 1

\* the positions whose fetch_entry call has started and has not ended
InFlight == {p \in 1..MaxIds : fetchCalls[p] > fetchEnds[p]}

\* C8: at most max_workers calls of fetch_entry are under way at a time, all
\* of them of one batch.
C8_BoundedConcurrency ==
    /\ Cardinality(InFlight) <= max_workers
    /\ \A p, q \in InFlight : BatchOf(p) = BatchOf(q)

\* the pool is full while an identifier of the batch still waits
C8_Witness ==
    /\ pc = "pool"
    /\ Cardinality(InFlight) = max_workers
    /\ Queued # {}

\* C9: when every fetch of a freshly fetched batch has been collected, the
\* identifiers added to skipped_entries during the batch and the records
\* collected for it add up to the identifiers of the batch.
C9_NoLostAppend ==
    (pc = "pool" /\ PoolDone) =>
        (Len(skipped_entries) - skipBase) + Len(batch_data) = Cardinality(DOMAIN task)

\* two fetches of one batch were skipped and a third returned a record
C9_Witness ==
    /\ pc = "pool" /\ PoolDone
    /\ Len(skipped_entries) - skipBase >= 2
    /\ Len(batch_data) >= 1

\* identifiers of the reloaded batches in S that have no row in their checkpoint
RECURSIVE ReloadedMissing(_)
ReloadedMissing(S) ==
    IF S = {} THEN 0
    ELSE LET N == CHOOSE n \in S : TRUE
         IN (Cardinality(BatchPositions(all_ids, N)) - Len(startCkpt[N]))
            + ReloadedMissing(S \ {N})

\* C10, as stated: a finished run leaves ceil(count/B) checkpoint artifacts
\* and a final table of count minus the number of skipped identifiers rows.
C10_EndToEndCounts ==
    pc = "done" =>
        /\ Cardinality(DOMAIN ckpt) = NumBatches(Len(all_ids))
        /\ Len(finalFile[1]) = Len(all_ids) - Len(skipped_entries)

\* C10, amended: a finished run leaves one checkpoint artifact for every
\* batch except those it fetched without collecting a record, and the final
\* table has count rows less the identifiers skipped in this run and less the
\* identifiers of reloaded batches that have no row in their checkpoint.
C10_EndToEndCountsAmended ==
    pc = "done" =>
        /\ Cardinality(DOMAIN ckpt) = NumBatches(Len(all_ids)) - Cardinality(emptyNow)
        /\ Len(finalFile[1]) =
              Len(all_ids) - Len(skipped_entries) - ReloadedMissing(completed_batches)

\* a finished run reloaded a batch with a skipped identifier and fetched
\* another batch without collecting a record
C10_Witness ==
    /\ pc = "done"
    /\ emptyNow # {}
    /\ \E N \in completed_batches :
          Len(startCkpt[N]) < Cardinality(BatchPositions(all_ids, N))

\* the fields the scan of the probed page extracts
Extracted == ScanRows(NoFields, probe.rows)

\* C11: the call returns a record if and only if the request succeeded and
\* the extracted systematic name or SMILES is non-empty; a call that returns
\* a record appends nothing, any other call returns None and appends the
\* identifier once.
C11_RecordIffField ==
    ret # <<>> =>
        /\ ret[1] # <<>> <=>
              (probe.ok /\ (Extracted.systematic_name # "" \/ Extracted.smiles # ""))
        /\ ret[1] # <<>> => skipped_entries = <<>>
        /\ ret[1] = <<>> => skipped_entries = <<TestId>>

\* a page with a name row and no SMILES row gave a record
C11_Witness ==
    /\ ret # <<>>
    /\ ret[1] # <<>>
    /\ Extracted.smiles = "" /\ Extracted.systematic_name # ""

\* C12: get_listing_pages ends for every arrangement of the next links.  The
\* pages do not change during the walk, so it ends exactly when it requests
\* no page twice; and what it returns starts with the start URL.
C12_PaginatorTerminates ==
    /\ \A k, m \in DOMAIN urls : urls[k] = urls[m] => k = m
    /\ pc = "extract" => (urls # <<>> /\ urls[1] = 1)

\* an identifier of 12 characters that starts with FL
ValidId(t) == Len(t) = 12 /\ SubSeq(t, 1, 2) = "FL"

\* the valid identifiers among the anchors of the first n pages of urls
RECURSIVE ValidUpTo(_)
ValidUpTo(n) ==
    IF n = 0 THEN <<>>
    ELSE ValidUpTo(n - 1) \o SelectSeq([k \in DOMAIN anchors[urls[n]] |->
                                          Strip(anchors[urls[n]][k])], ValidId)

\* C14: after the loop of line 101 has taken n pages, all_ids holds, in the
\* order of the pages and of the markup, exactly the anchor texts of those
\* pages that have 12 characters and start with FL, duplicates included.
C14_ExtractIds ==
    pc = "extract" => all_ids = ValidUpTo(pageIdx)

\* two pages were extracted and an identifier is in all_ids twice, while
\* some anchors were turned down
C14_Witness ==
    /\ pc = "extract" /\ pageIdx = 2
    /\ \E k, m \in DOMAIN all_ids : k < m /\ all_ids[k] = all_ids[m]
    /\ Len(all_ids) < Len(anchors[urls[1]]) + Len(anchors[urls[2]])

\* the records all_data holds for batch N in this run
DataOf(N, n) == SubSeq(all_data, segStart[N] + 1, segStart[N] + n)

\* C13: the records a run reloads for a checkpointed batch equal, field for
\* field, the records save_checkpoint wrote for it.
C13_RoundTrip ==
    \A N \in completed_batches :
        Passed(N) => DataOf(N, Len(saved[N])) = saved[N]

\* C15: no position of the identifier list is fetched twice; positions of
\* batches that had a checkpoint when the run started are not fetched; once
\* the scheduler is past a batch that had none, each of its positions has had
\* exactly one call of fetch_entry, and the call has ended.
C15_SingleAttempt ==
    /\ \A p \in 1..MaxIds : fetchCalls[p] <= 1 /\ fetchEnds[p] <= fetchCalls[p]
    /\ \A p \in 1..Len(all_ids) :
          /\ BatchOf(p) \in DOMAIN startCkpt => fetchCalls[p] = 0
          /\ (BatchOf(p) \notin DOMAIN startCkpt /\ Passed(BatchOf(p))) => Fetched(p)

\* a resumed run has finished: one batch was reloaded, another fetched, with
\* a fetch that failed among those made
C15_Witness ==
    /\ pc = "done"
    /\ DOMAIN startCkpt # {}
    /\ \E p \in failed : fetchCalls[p] = 1
    /\ \E p \in 1..Len(all_ids) : Fetched(p) /\ p \notin failed

\* every batch of the list has been reloaded or fetched and passed on
AllBatchesProcessed ==
    /\ i >= Len(all_ids)
    /\ \A N \in 1..NumBatches(Len(all_ids)) : N \in completed_batches \/ saveCalls[N] = 1

\* C16: the final table is written once, by a run that has processed every
\* batch, and it is the table of all_data whatever all_data holds; the
\* skipped table is written once by such a run if and only if a fetch of this
\* run was skipped, and not at all otherwise.
C16_FinalArtifactsOnce ==
    /\ finalWrites = IF pc = "done" THEN 1 ELSE 0
    /\ skippedWrites = IF pc = "done" /\ failed # {} THEN 1 ELSE 0
    /\ pc = "done" =>
          /\ AllBatchesProcessed
          /\ finalFile = <<to_csv(all_data)>>
          /\ failed # {} => skippedFile = <<skipped_entries>>
          /\ failed = {} => skippedFile = startFinal[2]

\* a run without a skip has finished after a run that left a skipped table
C16_Witness ==
    /\ pc = "done"
    /\ failed = {}
    /\ startFinal[2] # <<>>
    /\ all_data # <<>>

Max(S) == CHOOSE x \in S : \A y \in S : y <= x

\* the record the single call returned
Rec == ret[1][1]

\* the rows of the probed page that reach the average-mass branch (line 54)
MassRows ==
    {k \in DOMAIN probe.rows :
        /\ probe.rows[k].n >= 2
        /\ "average mass" \in probe.rows[k].key
        /\ "smiles" \notin probe.rows[k].key
        /\ "systematic name" \notin probe.rows[k].key}

ParsedMassRows == {k \in MassRows : ParseMass(probe.rows[k].tokens) # <<>>}
FailedMassRows == MassRows \ ParsedMassRows

\* C17, as stated: with an average-mass row that fails to parse on the page,
\* the entry is not skipped for it and the record has an empty average_mass.
C17_ParseFailureEmpty ==
    (ret # <<>> /\ probe.ok /\ FailedMassRows # {}) =>
        /\ ret[1] # <<>> <=> (Extracted.systematic_name # "" \/ Extracted.smiles # "")
        /\ ret[1] # <<>> => Rec["Average_Mass"] = Str("")

\* C17, amended: with an average-mass row that fails to parse on the page,
\* the entry is not skipped for it, and the record has the average mass of
\* the last average-mass row that parsed, or an empty one when none parsed.
C17_ParseFailureKeeps ==
    (ret # <<>> /\ probe.ok /\ FailedMassRows # {}) =>
        /\ ret[1] # <<>> <=> (Extracted.systematic_name # "" \/ Extracted.smiles # "")
        /\ ret[1] # <<>> =>
              Rec["Average_Mass"] =
                  IF ParsedMassRows = {} THEN Str("")
                  ELSE Str(ParseMass(probe.rows[Max(ParsedMassRows)].tokens)[1])

\* a record came back with a mass although the last mass row failed to parse
C17_Witness ==
    /\ ret # <<>> /\ ret[1] # <<>>
    /\ FailedMassRows # {} /\ ParsedMassRows # {}
    /\ Max(FailedMassRows) > Max(ParsedMassRows)
    /\ Rec["Average_Mass"] = Str("268")

\* the rows of at least two cells whose label contains the keyword
LabelRows(kw) == {k \in DOMAIN probe.rows : probe.rows[k].n >= 2 /\ kw \in probe.rows[k].key}

\* the value of the last row of S, none when S is empty
LastValue(S) == IF S = {} THEN "" ELSE probe.rows[Max(S)].value

\* C18, as stated: SMILES and systematic name of the record are each the
\* value of the last row whose label contains the keyword of the field.
C18_LastMatchWins ==
    (ret # <<>> /\ ret[1] # <<>>) =>
        /\ Rec["SMILES"] = Str(LastValue(LabelRows("smiles")))
        /\ Rec["Systematic_Name"] = Str(LastValue(LabelRows("systematic name")))

\* C18, amended: SMILES is the value of the last row whose label contains
\* "smiles"; systematic name is the value of the last row whose label
\* contains "systematic name" and does not contain "smiles".
C18_LastMatchWinsPerBranch ==
    (ret # <<>> /\ ret[1] # <<>>) =>
        /\ Rec["SMILES"] = Str(LastValue(LabelRows("smiles")))
        /\ Rec["Systematic_Name"] =
              Str(LastValue(LabelRows("systematic name") \ LabelRows("smiles")))

\* two SMILES rows with different values: the record has the later one
C18_Witness ==
    /\ ret # <<>> /\ ret[1] # <<>>
    /\ \E k, m \in LabelRows("smiles") :
          /\ k < m /\ m = Max(LabelRows("smiles"))
          /\ probe.rows[k].value # probe.rows[m].value
          /\ probe.rows[k].value # ""
          /\ Rec["SMILES"] = Str(probe.rows[m].value)

\* C19: every batch number load_completed_batches reported, of a batch of
\* this listing, has its artifact at checkpoint_<N>.csv, and no run ends
\* because the reload of a checkpoint failed.
C19_ReloadNeverFails ==
    /\ pc \in {"loop", "pool", "done"} =>
          \A N \in completed_batches :
              N \in 1..NumBatches(Len(all_ids)) => N \in DOMAIN ckpt
    /\ abortCause # "reload"

\* the records of the identifiers ids, in the order of ids
RECURSIVE RecordsOf(_)
RecordsOf(ids) ==
    IF ids = <<>> THEN <<>>
    ELSE fetch_entry(Head(ids), pages[Head(ids)]) \o RecordsOf(Tail(ids))

\* the identifiers of ids whose call returns None, in the order of ids
RECURSIVE SkippedOf(_)
SkippedOf(ids) ==
    IF ids = <<>> THEN <<>>
    ELSE (IF fetch_entry(Head(ids), pages[Head(ids)]) = <<>> THEN <<Head(ids)>> ELSE <<>>)
         \o SkippedOf(Tail(ids))

\* the identifiers of batch N of the listing
ListedBatch(N) == batch_ids_of(siteIds, (N - 1) * batch_size)

\* what a run whose completed_batches is done adds to all_data and to
\* skipped_entries for the batches 1..n, the workers finishing in the order
\* of submission
RECURSIVE DataUpTo(_, _)
DataUpTo(n, done) ==
    IF n = 0 THEN <<>>
    ELSE DataUpTo(n - 1, done)
         \o (IF n \in done THEN read_csv(to_csv(RecordsOf(ListedBatch(n))))
             ELSE RecordsOf(ListedBatch(n)))

RECURSIVE SkippedUpTo(_, _)
SkippedUpTo(n, done) ==
    IF n = 0 THEN <<>>
    ELSE SkippedUpTo(n - 1, done)
         \o (IF n \in done THEN <<>> ELSE SkippedOf(ListedBatch(n)))

\* the multiset of the elements of a sequence
BagOf(q) == [x \in {q[k] : k \in DOMAIN q} |-> Cardinality({k \in DOMAIN q : q[k] = x})]

\* C20: with the listing and the page of every identifier fixed, every
\* checkpoint holds the multiset of records of its batch, and a finished run
\* leaves the multiset of rows and the multiset of skipped identifiers that
\* follow from the listing, the pages and the batches it found completed,
\* whatever the order in which the workers ran.
C20_ScheduleIndependent ==
    /\ \A N \in DOMAIN ckpt : BagOf(ckpt[N]) = BagOf(to_csv(RecordsOf(ListedBatch(N))))
    /\ pc = "done" =>
          LET n == NumBatches(Len(siteIds))
          IN /\ BagOf(finalFile[1]) = BagOf(to_csv(DataUpTo(n, completed_batches)))
             /\ BagOf(skipped_entries) = BagOf(SkippedUpTo(n, completed_batches))
             /\ skipped_entries # <<>> =>
                   BagOf(skippedFile[1]) = BagOf(SkippedUpTo(n, completed_batches))

\* a finished run whose workers did not finish in the order of submission:
\* a checkpoint and the skipped list are in another order than the listing
C20_Witness ==
    /\ pc = "done"
    /\ \E N \in DOMAIN ckpt : ckpt[N] # to_csv(RecordsOf(ListedBatch(N)))
    /\ finalFile[1] # to_csv(DataUpTo(NumBatches(Len(siteIds)), completed_batches))

====
